---- MODULE Spec2Model ----
(***************************************************************************)
(* Thread-screen model (src/unnamed/part_000): the stream of reducers that *)
(* model() merges, folded over the screen State in emission order.         *)
(* Each action is one emission of a source stream (props, an intent        *)
(* action, a data-source result or failure) together with the reducer it   *)
(* makes the merged stream emit.                                           *)
(***************************************************************************)
EXTENDS Integers, Sequences, FiniteSets, TLC

\* ---------------------------------------------------------------- bounds
MaxActions == 2        \* emissions of the intent's action streams per run
MaxThreadEmits == 1    \* successful emissions of the root thread stream per run
MaxSinkEmits == 2      \* values kept per clipboard / toast sink of the profile screen

\* ------------------------------------------------------- optional values
None == <<>>
Some(v) == <<v>>
IsSome(o) == o # <<>>
\* a ?? b
Coalesce(o, d) == IF o # <<>> THEN o[1] ELSE d

\* ------------------------------------------------------------- messages
\* MsgAndExtras: the key and whether the extras are freshly computed
Msg(k, f) == [key |-> k, fresh |-> f]

\* ssbSource.rehydrateMessage$(msg): same message, extras recomputed
Rehydrated(m) == [m EXCEPT !.fresh = TRUE]

\* --------------------------------------------------------------- threads
emptyThread == [full |-> TRUE, messages |-> <<>>, errorReason |-> "none"]
missingThread == [full |-> TRUE, messages |-> <<>>, errorReason |-> "missing"]
blockedThread == [full |-> TRUE, messages |-> <<>>, errorReason |-> "blocked"]
unknownErrorThread == [full |-> TRUE, messages |-> <<>>, errorReason |-> "unknown"]

\* what ssbSource.thread$(rootId, false) can emit for the root thread
ThreadResults ==
  { [full |-> TRUE, messages |-> <<Msg("m1", TRUE), Msg("r1", TRUE)>>, errorReason |-> "none"],
    [full |-> TRUE, messages |-> <<Msg("m1", TRUE), Msg("s1", TRUE)>>, errorReason |-> "none"] }

\* a thread can hold the user's new reply only once that reply was published
HoldsOwnReply(t) == \E i \in 1..Len(t.messages) : t.messages[i].key = "s1"

\* ids of replies that can be reported as seen, and what their threads hold
ReplyIds == {"r1", "r2"}
SubthreadResults ==
  { [full |-> TRUE, messages |-> <<Msg("r1", TRUE), Msg("r3", TRUE)>>, errorReason |-> "none"] }

\* new own replies delivered by the live self-replies readable
SelfReplyMsgs == {Msg("s1", TRUE)}

\* ---------------------------------------------------------- error texts
\* err.message of a failed thread load, as a sequence of characters
ErrMessages ==
  { <<"A","u","t","h","o","r"," ","B","l","o","c","k","e","d">>,
    <<"E","r","r","o","r",":"," ","a","u","t","h","o","r"," ","b","l","o","c","k","e","d">>,
    <<"m","s","g"," ","N","O","T"," ","F","O","U","N","D">>,
    <<"N","o","t"," ","F","o","u","n","d",":"," ","A","u","t","h","o","r"," ","B","l","o","c","k","e","d">>,
    <<"A","u","t","h","o","r","B","l","o","c","k","e","d">>,
    <<>> }

\* err.message of a failed sub-thread load
SubthreadErrMessages ==
  { <<"N","o","t"," ","F","o","u","n","d">>, <<"t","i","m","e","o","u","t">> }

AuthorBlockedPattern == <<"A","u","t","h","o","r"," ","B","l","o","c","k","e","d">>
NotFoundPattern == <<"N","o","t"," ","F","o","u","n","d">>

UpperCase == <<"A","B","C","D","E","F","G","H","I","J","K","L","M",
               "N","O","P","Q","R","S","T","U","V","W","X","Y","Z">>
LowerCase == <<"a","b","c","d","e","f","g","h","i","j","k","l","m",
               "n","o","p","q","r","s","t","u","v","w","x","y","z">>

\* case folding of one character, as the i flag of a RegExp compares
FoldCase(c) ==
  IF \E i \in 1..26 : UpperCase[i] = c
  THEN LowerCase[CHOOSE i \in 1..26 : UpperCase[i] = c]
  ELSE c

\* does the literal pattern match the text at position i, from pattern
\* character j on
RECURSIVE MatchAt(_, _, _, _)
MatchAt(pat, text, i, j) ==
  IF j > Len(pat) THEN TRUE
  ELSE IF i + j - 1 > Len(text) THEN FALSE
  ELSE IF FoldCase(text[i + j - 1]) # FoldCase(pat[j]) THEN FALSE
  ELSE MatchAt(pat, text, i, j + 1)

\* /pat/i.test(text): the first position from i on where pat matches
RECURSIVE RegExpTestFrom(_, _, _)
RegExpTestFrom(pat, text, i) ==
  IF i + Len(pat) - 1 > Len(text) THEN FALSE
  ELSE IF MatchAt(pat, text, i, 1) THEN TRUE
  ELSE RegExpTestFrom(pat, text, i + 1)

RegExpTestI(pat, text) == RegExpTestFrom(pat, text, 1)

ReplaceThreadError_NotFoundFirst(message) ==
  IF RegExpTestI(NotFoundPattern, message) THEN missingThread
  ELSE IF RegExpTestI(AuthorBlockedPattern, message) THEN blockedThread
  ELSE unknownErrorThread

\* the replaceError handler of the root thread load
ReplaceThreadError(message) ==
  IF RegExpTestI(AuthorBlockedPattern, message) THEN blockedThread
  ELSE IF RegExpTestI(NotFoundPattern, message) THEN missingThread
  ELSE unknownErrorThread

\* the replaceError handler of a sub-thread load
ReplaceSubthreadError(message) == emptyThread

\* ----------------------------------------------------------------- props
PropsSet ==
  { [selfFeedId |-> "@me", selfAvatarUrl |-> None, rootMsgId |-> Some("m1"),
     rootMsg |-> None, higherRootMsgId |-> None, expandRootCW |-> None,
     replyToMsgId |-> None],
    [selfFeedId |-> "@me", selfAvatarUrl |-> Some("avatar.png"), rootMsgId |-> None,
     rootMsg |-> Some(Msg("m1", FALSE)), higherRootMsgId |-> Some("m0"),
     expandRootCW |-> Some(TRUE), replyToMsgId |-> Some("r1")],
    [selfFeedId |-> "@me", selfAvatarUrl |-> None, rootMsgId |-> Some("m1"),
     rootMsg |-> Some(Msg("m1", FALSE)), higherRootMsgId |-> None,
     expandRootCW |-> Some(FALSE), replyToMsgId |-> None] }

\* ----------------------------------------------------------------- State
Fields == {"selfFeedId", "selfAvatarUrl", "rootMsgId", "higherRootMsgId",
           "loading", "loadingReplies", "thread", "subthreads", "expandRootCW",
           "replyText", "replyEditable", "getSelfRepliesReadable",
           "startedAsReply", "keyboardVisible"}

\* the fold's seed is undefined: no field is defined; the values below only
\* stand for the absent fields and are never read while absent
UndefinedState ==
  [selfFeedId |-> "", selfAvatarUrl |-> None, rootMsgId |-> "",
   higherRootMsgId |-> None, loading |-> FALSE, loadingReplies |-> FALSE,
   thread |-> emptyThread, subthreads |-> <<>>, expandRootCW |-> FALSE,
   replyText |-> "", replyEditable |-> FALSE, getSelfRepliesReadable |-> None,
   startedAsReply |-> FALSE, keyboardVisible |-> FALSE]

\* texts the user can type, and values the draft store can hold
Texts == {"hi"}
Null == "<null>"
StoredValues == {Null, "", "hello"}
DraftIds == {"m1", "m2"}

\* !value of a stored draft
Falsy(v) == v = Null \/ v = ""

\* `replyDraft:${rootMsgId}`
DraftKey(rootMsgId) == <<"replyDraft:", rootMsgId>>

\* --------------------------------------------------------------- reducers
propsReducer_AlwaysLoadingReplies(p) ==
  [selfFeedId |-> p.selfFeedId,
   selfAvatarUrl |-> p.selfAvatarUrl,
   rootMsgId |-> IF IsSome(p.rootMsgId) THEN p.rootMsgId[1] ELSE p.rootMsg[1].key,
   higherRootMsgId |-> p.higherRootMsgId,
   loading |-> TRUE,
   loadingReplies |-> TRUE,
   thread |-> emptyThread,
   subthreads |-> <<>>,
   expandRootCW |-> Coalesce(p.expandRootCW, FALSE),
   replyText |-> "",
   replyEditable |-> TRUE,
   getSelfRepliesReadable |-> None,
   startedAsReply |-> (IsSome(p.replyToMsgId) /\ p.replyToMsgId[1] # ""),
   keyboardVisible |-> (IsSome(p.replyToMsgId) /\ p.replyToMsgId[1] # "")]

propsReducer(p) ==
  [selfFeedId |-> p.selfFeedId,
   selfAvatarUrl |-> p.selfAvatarUrl,
   rootMsgId |-> IF IsSome(p.rootMsgId) THEN p.rootMsgId[1] ELSE p.rootMsg[1].key,
   higherRootMsgId |-> p.higherRootMsgId,
   loading |-> TRUE,
   loadingReplies |-> IsSome(p.rootMsg),
   thread |-> emptyThread,
   subthreads |-> <<>>,
   expandRootCW |-> Coalesce(p.expandRootCW, FALSE),
   replyText |-> "",
   replyEditable |-> TRUE,
   getSelfRepliesReadable |-> None,
   startedAsReply |-> (IsSome(p.replyToMsgId) /\ p.replyToMsgId[1] # ""),
   keyboardVisible |-> (IsSome(p.replyToMsgId) /\ p.replyToMsgId[1] # "")]

setRootMsgReducer_NoGuard(prev, rootMsg) ==
  [prev EXCEPT !.thread = [full |-> FALSE, messages |-> <<rootMsg>>,
                           errorReason |-> "none"]]

setRootMsgReducer_MarksFull(prev, rootMsg) ==
  IF prev.thread.full /\ Len(prev.thread.messages) > 0
  THEN prev
  ELSE [prev EXCEPT !.thread = [full |-> TRUE, messages |-> <<rootMsg>>,
                                errorReason |-> "none"]]

setRootMsgReducer(prev, rootMsg) ==
  IF prev.thread.full /\ Len(prev.thread.messages) > 0
  THEN prev
  ELSE [prev EXCEPT !.thread = [full |-> FALSE, messages |-> <<rootMsg>>,
                                errorReason |-> "none"]]

setThreadReducer_KeepLoading(prev, thread) ==
  [prev EXCEPT !.thread = thread, !.loadingReplies = FALSE]

setThreadReducer(prev, thread) ==
  [prev EXCEPT !.thread = thread, !.loading = FALSE, !.loadingReplies = FALSE]

setSubthreadReducer_LastWins(prev, msgId, subthread) ==
  [prev EXCEPT !.subthreads =
     [k \in (DOMAIN prev.subthreads) \cup {msgId} |->
        IF k = msgId THEN subthread ELSE prev.subthreads[k]]]

setSubthreadReducer_DropsOthers(prev, msgId, subthread) ==
  IF msgId \in DOMAIN prev.subthreads
  THEN prev
  ELSE [prev EXCEPT !.subthreads = [k \in {msgId} |-> subthread]]

\* subthreads is a map: its domain is the set of cached message ids
setSubthreadReducer(prev, msgId, subthread) ==
  IF msgId \in DOMAIN prev.subthreads
  THEN prev
  ELSE [prev EXCEPT !.subthreads =
          [k \in (DOMAIN prev.subthreads) \cup {msgId} |->
             IF k = msgId THEN subthread ELSE prev.subthreads[k]]]

keyboardAppearedReducer(prev) == [prev EXCEPT !.keyboardVisible = TRUE]

keyboardDisappearedReducer_CopyPaste(prev) == [prev EXCEPT !.keyboardVisible = TRUE]

keyboardDisappearedReducer(prev) == [prev EXCEPT !.keyboardVisible = FALSE]

updateReplyTextReducer(prev, text) == [prev EXCEPT !.replyText = text]

emptyPublishedReducer(prev) ==
  [prev EXCEPT !.replyText = "", !.replyEditable = FALSE]

resetEditableReducer_Noop(prev) == prev

resetEditableReducer(prev) == [prev EXCEPT !.replyEditable = TRUE]

emptyReplyTextReducer_Noop(prev) == prev

emptyReplyTextReducer(prev) == [prev EXCEPT !.replyText = ""]

loadReplyDraftReducer_Verbatim(prev, replyText) ==
  [prev EXCEPT !.replyText = replyText]

loadReplyDraftReducer(prev, replyText) ==
  IF Falsy(replyText)
  THEN [prev EXCEPT !.replyText = ""]
  ELSE [prev EXCEPT !.replyText = replyText]

addSelfRepliesReducer_KeepsFull(prev, newMsg) ==
  [prev EXCEPT !.thread = [messages |-> Append(prev.thread.messages, newMsg),
                           full |-> prev.thread.full, errorReason |-> "none"]]

addSelfRepliesReducer(prev, newMsg) ==
  [prev EXCEPT !.thread = [messages |-> Append(prev.thread.messages, newMsg),
                           full |-> TRUE, errorReason |-> "none"]]

\* ------------------------------------------------------------------ state
VARIABLES
  props,        \* the value props$ emitted (None before it emits)
  propsDone,    \* propsReducer has been applied (props$.take(1) is spent)
  pipeline,     \* "live", or why the merged reducer stream / the fold ended
  state,        \* the folded State
  defined,      \* the fields present in the folded State
  pc,           \* "idle", or "publishMid" between the two publish reducers
  rehydrate,    \* rehydrateMessage$: "idle", "never", "pending", "done"
  threadLoad,   \* root thread$: "idle", "pending", "open", "closed"
  threadEmits,  \* successful emissions of the root thread$ so far
  subLoads,     \* inner streams of flattenConcurrently in flight, per msg id
  requested,    \* ssbSource.thread$(msgId) calls made so far, per msg id
  completions,  \* the sub-thread results applied so far, in arrival order
  draftFetch,   \* the pending getItem: the id asked for and the key read
  selfSub,      \* the live self-replies subscription: "none", "waiting"
  published,    \* the user's new reply "s1": "no" (not published), "old" (published
                \* with no live subscription open), "live" (published while the
                \* live readable was open) or "echoed" (delivered by the readable)
  actions,      \* emissions of the action streams so far
  event,        \* the last source emission and the reducer it produced
  profilePc,    \* profile screen: "none" before profile(sources) ran, then "assembled"
  subscribed,   \* the profile sinks the drivers have subscribed to
  displayFeedId,\* state.displayFeedId last seen on sources.state.stream
  busLog,       \* everything emitted on the globalEventBus sink, in order
  clipboardLog, \* everything emitted on the clipboard sink, in order
  toastLog,     \* everything emitted on the toast sink, in order
  profileStep   \* the last step of the profile screen

threadVars == <<props, propsDone, pipeline, state, defined, pc, rehydrate, threadLoad,
                threadEmits, subLoads, requested, completions, draftFetch, selfSub,
                published, actions, event>>

profileVars == <<profilePc, subscribed, displayFeedId, busLog, clipboardLog,
                 toastLog, profileStep>>

vars == <<threadVars, profileVars>>

Ev(a, r, x) == [action |-> a, reducer |-> r, arg |-> x]

Init ==
  /\ props = None
  /\ propsDone = FALSE
  /\ pipeline = "live"
  /\ state = UndefinedState
  /\ defined = {}
  /\ pc = "idle"
  /\ rehydrate = "idle"
  /\ threadLoad = "idle"
  /\ threadEmits = 0
  /\ subLoads = [id \in ReplyIds |-> 0]
  /\ requested = [id \in ReplyIds |-> 0]
  /\ completions = <<>>
  /\ draftFetch = None
  /\ selfSub = "none"
  /\ published = "no"
  /\ actions = 0
  /\ event = Ev("init", "none", <<>>)
  /\ profilePc = "none"
  /\ subscribed = {}
  /\ displayFeedId = None
  /\ busLog = <<>>
  /\ clipboardLog = <<>>
  /\ toastLog = <<>>
  /\ profileStep = "init"

\* the merged stream is alive and no synchronous emission is in progress
Ready == pipeline = "live" /\ pc = "idle"

\* one more emission of an action stream
Act == actions < MaxActions /\ actions' = actions + 1

RequestSubthread_SkipInFlight(loads, msgId) ==
  IF loads[msgId] > 0 THEN loads ELSE [loads EXCEPT ![msgId] = @ + 1]

\* flattenConcurrently: every emitted inner stream is subscribed and kept
RequestSubthread(loads, msgId) == [loads EXCEPT ![msgId] = @ + 1]

\* ---------------------------------------------------------------- actions
\* props$ emits: propsReducer, and the two loads that hang off props$.take(1)
PropsArrive(p) ==
  /\ Ready
  /\ props = None
  /\ props' = Some(p)
  /\ propsDone' = TRUE
  /\ state' = propsReducer(p)
  /\ defined' = Fields
  /\ rehydrate' = IF IsSome(p.rootMsg) THEN "pending" ELSE "never"
  /\ threadLoad' = "pending"
  /\ event' = Ev("props", "propsReducer", <<>>)
  /\ UNCHANGED published
  /\ UNCHANGED <<pipeline, pc, threadEmits, subLoads, requested, completions,
                 draftFetch, selfSub, actions>>
  /\ UNCHANGED profileVars

\* rehydrateMessage$(props.rootMsg) emits
RehydrateDone ==
  /\ Ready
  /\ rehydrate = "pending"
  /\ rehydrate' = "done"
  /\ state' = setRootMsgReducer(state, Rehydrated(props[1].rootMsg[1]))
  /\ event' = Ev("rehydrated", "setRootMsgReducer", Rehydrated(props[1].rootMsg[1]))
  /\ UNCHANGED published
  /\ UNCHANGED <<props, propsDone, pipeline, defined, pc, threadLoad, threadEmits,
                 subLoads, requested, completions, draftFetch, selfSub, actions>>
  /\ UNCHANGED profileVars

\* rehydrateMessage$ fails: nothing replaces the error, merge forwards it
RehydrateFail ==
  /\ Ready
  /\ rehydrate = "pending"
  /\ rehydrate' = "done"
  /\ pipeline' = "rehydrateError"
  /\ event' = Ev("rehydrateFailed", "none", <<>>)
  /\ UNCHANGED published
  /\ UNCHANGED <<props, propsDone, state, defined, pc, threadLoad, threadEmits,
                 subLoads, requested, completions, draftFetch, selfSub, actions>>
  /\ UNCHANGED profileVars

\* thread$(rootMsgId, false) emits a thread
ThreadLoadEmit(t) ==
  /\ Ready
  /\ threadLoad \in {"pending", "open"}
  /\ threadEmits < MaxThreadEmits
  /\ HoldsOwnReply(t) => published # "no"
  /\ threadEmits' = threadEmits + 1
  /\ threadLoad' = "open"
  /\ state' = setThreadReducer(state, t)
  /\ event' = Ev("threadLoaded", "setThreadReducer", t)
  /\ UNCHANGED published
  /\ UNCHANGED <<props, propsDone, pipeline, defined, pc, rehydrate, subLoads,
                 requested, completions, draftFetch, selfSub, actions>>
  /\ UNCHANGED profileVars

\* thread$(rootMsgId, false) fails with err.message = m
ThreadLoadFail(m) ==
  /\ Ready
  /\ threadLoad \in {"pending", "open"}
  /\ threadLoad' = "closed"
  /\ state' = setThreadReducer(state, ReplaceThreadError(m))
  /\ event' = Ev("threadFailed", "setThreadReducer", m)
  /\ UNCHANGED published
  /\ UNCHANGED <<props, propsDone, pipeline, defined, pc, rehydrate, threadEmits,
                 subLoads, requested, completions, draftFetch, selfSub, actions>>
  /\ UNCHANGED profileVars

\* replySeen$ emits msgId: thread$(msgId, false) is called and subscribed
ReplySeen(msgId) ==
  /\ Ready
  /\ Act
  /\ subLoads' = RequestSubthread(subLoads, msgId)
  /\ requested' = [requested EXCEPT ![msgId] = @ + 1]
  /\ event' = Ev("replySeen", "none", msgId)
  /\ UNCHANGED published
  /\ UNCHANGED <<props, propsDone, pipeline, state, defined, pc, rehydrate,
                 threadLoad, threadEmits, completions, draftFetch, selfSub>>
  /\ UNCHANGED profileVars

\* an inner stream of a sub-thread load delivers subthread for msgId
DeliverSubthread(a, msgId, subthread) ==
  /\ Ready
  /\ subLoads[msgId] > 0
  /\ subLoads' = [subLoads EXCEPT ![msgId] = @ - 1]
  /\ IF "subthreads" \in defined
     THEN /\ state' = setSubthreadReducer(state, msgId, subthread)
          /\ completions' = Append(completions, [id |-> msgId, result |-> subthread])
          /\ event' = Ev(a, "setSubthreadReducer", [id |-> msgId, result |-> subthread])
          /\ UNCHANGED pipeline
     ELSE \* prev.subthreads[msgId] on an absent subthreads: the reducer throws
          /\ pipeline' = "TypeError"
          /\ event' = Ev(a, "throw", <<>>)
          /\ UNCHANGED <<state, completions>>
  /\ UNCHANGED published
  /\ UNCHANGED <<props, propsDone, defined, pc, rehydrate, threadLoad, threadEmits,
                 requested, draftFetch, selfSub, actions>>
  /\ UNCHANGED profileVars

SubthreadDone(msgId, t) == DeliverSubthread("subthreadLoaded", msgId, t)

SubthreadFail(msgId, m) ==
  DeliverSubthread("subthreadFailed", msgId, ReplaceSubthreadError(m))

KeyboardAppeared ==
  /\ Ready
  /\ Act
  /\ state' = keyboardAppearedReducer(state)
  /\ defined' = defined \cup {"keyboardVisible"}
  /\ event' = Ev("keyboardAppeared", "keyboardAppearedReducer", <<>>)
  /\ UNCHANGED published
  /\ UNCHANGED <<props, propsDone, pipeline, pc, rehydrate, threadLoad, threadEmits,
                 subLoads, requested, completions, draftFetch, selfSub>>
  /\ UNCHANGED profileVars

KeyboardDisappeared ==
  /\ Ready
  /\ Act
  /\ state' = keyboardDisappearedReducer(state)
  /\ defined' = defined \cup {"keyboardVisible"}
  /\ event' = Ev("keyboardDisappeared", "keyboardDisappearedReducer", <<>>)
  /\ UNCHANGED published
  /\ UNCHANGED <<props, propsDone, pipeline, pc, rehydrate, threadLoad, threadEmits,
                 subLoads, requested, completions, draftFetch, selfSub>>
  /\ UNCHANGED profileVars

UpdateReplyText(text) ==
  /\ Ready
  /\ Act
  /\ state' = updateReplyTextReducer(state, text)
  /\ defined' = defined \cup {"replyText"}
  /\ event' = Ev("updateReplyText", "updateReplyTextReducer", text)
  /\ UNCHANGED published
  /\ UNCHANGED <<props, propsDone, pipeline, pc, rehydrate, threadLoad, threadEmits,
                 subLoads, requested, completions, draftFetch, selfSub>>
  /\ UNCHANGED profileVars

\* {live: true, old: false}: the readable delivers only a reply published
\* after it was opened; the model follows the first reply published in a run
PublishedAfter(was, sub) ==
  IF was # "no" THEN was
  ELSE IF sub = "waiting" THEN "live" ELSE "old"

\* publishMsg$ emits: xs.of(emptyPublishedReducer, resetEditableReducer) is
\* flattened, its first reducer is applied
Publish ==
  /\ Ready
  /\ Act
  /\ pc' = "publishMid"
  /\ state' = emptyPublishedReducer(state)
  /\ defined' = defined \cup {"replyText", "replyEditable"}
  /\ event' = Ev("publish", "emptyPublishedReducer", <<>>)
  /\ published' = PublishedAfter(published, selfSub)
  /\ UNCHANGED <<props, propsDone, pipeline, rehydrate, threadLoad, threadEmits,
                 subLoads, requested, completions, draftFetch, selfSub>>
  /\ UNCHANGED profileVars

\* ... and its second reducer, in the same synchronous emission
PublishReset ==
  /\ pipeline = "live"
  /\ pc = "publishMid"
  /\ pc' = "idle"
  /\ state' = resetEditableReducer(state)
  /\ event' = Ev("publish", "resetEditableReducer", <<>>)
  /\ UNCHANGED published
  /\ UNCHANGED <<props, propsDone, pipeline, defined, rehydrate, threadLoad,
                 threadEmits, subLoads, requested, completions, draftFetch,
                 selfSub, actions>>
  /\ UNCHANGED profileVars

\* willReply$ emits: emptyReplyTextReducer, and the live self-replies feed is
\* (re)subscribed, the previous subscription being dropped by flatten
WillReply ==
  /\ Ready
  /\ Act
  /\ state' = emptyReplyTextReducer(state)
  /\ defined' = defined \cup {"replyText"}
  /\ selfSub' = "waiting"
  /\ event' = Ev("willReply", "emptyReplyTextReducer", <<>>)
  /\ published' = IF published = "live" THEN "old" ELSE published
  /\ UNCHANGED <<props, propsDone, pipeline, pc, rehydrate, threadLoad, threadEmits,
                 subLoads, requested, completions, draftFetch>>
  /\ UNCHANGED profileVars

\* the live readable delivers a new own reply; take(1) ends the subscription
SelfReplyArrives(newMsg) ==
  /\ Ready
  /\ selfSub = "waiting"
  /\ published = "live"
  /\ published' = "echoed"
  /\ selfSub' = "none"
  /\ IF "thread" \in defined
     THEN /\ state' = addSelfRepliesReducer(state, newMsg)
          /\ event' = Ev("selfReply", "addSelfRepliesReducer", newMsg)
          /\ UNCHANGED pipeline
     ELSE \* prev.thread.messages on an absent thread: the reducer throws
          /\ pipeline' = "TypeError"
          /\ event' = Ev("selfReply", "throw", <<>>)
          /\ UNCHANGED state
  /\ UNCHANGED <<props, propsDone, defined, pc, rehydrate, threadLoad, threadEmits,
                 subLoads, requested, completions, draftFetch, actions>>
  /\ UNCHANGED profileVars

\* the self-replies feed fails: nothing replaces the error
SelfRepliesFail ==
  /\ Ready
  /\ selfSub = "waiting"
  /\ selfSub' = "none"
  /\ pipeline' = "selfRepliesError"
  /\ event' = Ev("selfRepliesFailed", "none", <<>>)
  /\ UNCHANGED published
  /\ UNCHANGED <<props, propsDone, state, defined, pc, rehydrate, threadLoad,
                 threadEmits, subLoads, requested, completions, draftFetch, actions>>
  /\ UNCHANGED profileVars

SwitchDraftFetch_KeepsPending(pending, fetch) ==
  IF IsSome(pending) THEN pending ELSE Some(fetch)

\* flatten: the inner stream of an earlier fetch is dropped for the new one
SwitchDraftFetch(pending, fetch) == Some(fetch)

\* loadReplyDraft$ emits rootMsgId: getItem is called; flatten keeps only the
\* latest fetch
LoadReplyDraft(rootMsgId) ==
  /\ Ready
  /\ Act
  /\ draftFetch' = SwitchDraftFetch(draftFetch, [id |-> rootMsgId, key |-> DraftKey(rootMsgId)])
  /\ event' = Ev("loadReplyDraft", "none", [id |-> rootMsgId, replaced |-> draftFetch])
  /\ UNCHANGED published
  /\ UNCHANGED <<props, propsDone, pipeline, state, defined, pc, rehydrate,
                 threadLoad, threadEmits, subLoads, requested, completions,
                 selfSub>>
  /\ UNCHANGED profileVars

\* getItem delivers the stored value
DraftFetchDone(v) ==
  /\ Ready
  /\ IsSome(draftFetch)
  /\ draftFetch' = None
  /\ state' = loadReplyDraftReducer(state, v)
  /\ defined' = defined \cup {"replyText"}
  /\ event' = Ev("draftLoaded", "loadReplyDraftReducer", [key |-> draftFetch[1].key, value |-> v])
  /\ UNCHANGED published
  /\ UNCHANGED <<props, propsDone, pipeline, pc, rehydrate, threadLoad, threadEmits,
                 subLoads, requested, completions, selfSub, actions>>
  /\ UNCHANGED profileVars

\* getItem fails: nothing replaces the error
DraftFetchFail ==
  /\ Ready
  /\ IsSome(draftFetch)
  /\ draftFetch' = None
  /\ pipeline' = "draftError"
  /\ event' = Ev("draftFailed", "none", <<>>)
  /\ UNCHANGED published
  /\ UNCHANGED <<props, propsDone, state, defined, pc, rehydrate, threadLoad,
                 threadEmits, subLoads, requested, completions, selfSub, actions>>
  /\ UNCHANGED profileVars

Next ==
  \/ \E p \in PropsSet : PropsArrive(p)
  \/ RehydrateDone
  \/ RehydrateFail
  \/ \E t \in ThreadResults : ThreadLoadEmit(t)
  \/ \E m \in ErrMessages : ThreadLoadFail(m)
  \/ \E id \in ReplyIds : ReplySeen(id)
  \/ \E id \in ReplyIds, t \in SubthreadResults : SubthreadDone(id, t)
  \/ \E id \in ReplyIds, m \in SubthreadErrMessages : SubthreadFail(id, m)
  \/ KeyboardAppeared
  \/ KeyboardDisappeared
  \/ \E text \in Texts : UpdateReplyText(text)
  \/ Publish
  \/ PublishReset
  \/ WillReply
  \/ \E newMsg \in SelfReplyMsgs : SelfReplyArrives(newMsg)
  \/ SelfRepliesFail
  \/ \E id \in DraftIds : LoadReplyDraft(id)
  \/ \E v \in StoredValues : DraftFetchDone(v)
  \/ DraftFetchFail

Spec == Init /\ [][Next]_vars

\* the requested thread source delivers: a thread or a failure
ThreadSettles ==
  \/ \E t \in ThreadResults : ThreadLoadEmit(t)
  \/ \E m \in ErrMessages : ThreadLoadFail(m)

\* the thread source eventually emits or fails, and the second reducer of
\* xs.of(emptyPublishedReducer, resetEditableReducer) follows the first in the
\* same synchronous emission
SpecFair == Init /\ [][Next]_vars /\ WF_vars(ThreadSettles) /\ WF_vars(PublishReset)

\* ------------------------------------------------------------- properties
\* text contains pat, letters compared without regard to case
ContainsCI(text, pat) ==
  \E i \in 1..(Len(text) - Len(pat) + 1) :
    \A j \in 1..Len(pat) : FoldCase(text[i + j - 1]) = FoldCase(pat[j])

ExpectedReason(message) ==
  IF ContainsCI(message, AuthorBlockedPattern) THEN "blocked"
  ELSE IF ContainsCI(message, NotFoundPattern) THEN "missing"
  ELSE "unknown"

\* C1: loading is true from propsReducer on while no thread-load emission has
\* been applied, only setThreadReducer makes it false, setThreadReducer always
\* makes it false, and once false it stays false.
C1_LoadingFalseOnce ==
  [][ /\ (propsDone' /\ threadLoad' = "pending") => state'.loading
      /\ (propsDone /\ state.loading /\ ~state'.loading)
            => event'.reducer = "setThreadReducer"
      /\ event'.reducer = "setThreadReducer" => ~state'.loading
      /\ (propsDone /\ ~state.loading) => ~state'.loading ]_vars

\* loading was cleared and a later reducer of another stream has been applied
C1_Witness ==
  /\ propsDone
  /\ ~state.loading
  /\ event.reducer \notin {"none", "throw", "setThreadReducer", "propsReducer"}

\* C2: a failed root thread load installs a full, empty thread whose
\* errorReason is blocked if the message contains "Author Blocked", else
\* missing if it contains "Not Found", else unknown (case-insensitive).
C2_FailureSentinel ==
  event.action = "threadFailed" =>
    state.thread = [full |-> TRUE, messages |-> <<>>,
                    errorReason |-> ExpectedReason(event.arg)]

\* a failure whose message contains both texts was classified blocked
C2_Witness ==
  /\ event.action = "threadFailed"
  /\ ContainsCI(event.arg, AuthorBlockedPattern)
  /\ ContainsCI(event.arg, NotFoundPattern)
  /\ state.thread.errorReason = "blocked"

\* C3: once an error sentinel is the thread of State, every later state has
\* that same thread.
C3_SentinelTerminal ==
  [][ (propsDone /\ state.thread.errorReason # "none")
        => state'.thread = state.thread ]_vars

\* C4: no failure of a data source ends the merged reducer stream.
C4_FailuresHandled ==
  pipeline \notin {"rehydrateError", "draftError", "selfRepliesError"}

\* C5: an entry of subthreads, once set, is never overwritten or removed.
C5_FirstLoadWins ==
  [][ \A id \in DOMAIN state.subthreads :
        /\ id \in DOMAIN state'.subthreads
        /\ state'.subthreads[id] = state.subthreads[id] ]_vars

\* a load for an already cached id completed with another result, which was
\* discarded
C5_Witness ==
  /\ event.reducer = "setSubthreadReducer"
  /\ event.arg.id \in DOMAIN state.subthreads
  /\ state.subthreads[event.arg.id] # event.arg.result

Perms(n) == {f \in [1..n -> 1..n] : \A i, j \in 1..n : i # j => f[i] # f[j]}

\* the sub-thread results s applied in order to prev
RECURSIVE FoldLoads(_, _)
FoldLoads(prev, s) ==
  IF s = <<>> THEN prev
  ELSE FoldLoads(setSubthreadReducer(prev, Head(s).id, Head(s).result), Tail(s))

\* the map that the applied sub-thread results give when they arrive in order f
SubthreadsInOrder(f) ==
  FoldLoads([state EXCEPT !.subthreads = <<>>],
            [i \in 1..Len(completions) |-> completions[f[i]]]).subthreads

SameResultPerId ==
  \A i, j \in 1..Len(completions) :
    completions[i].id = completions[j].id
      => completions[i].result = completions[j].result

\* C7 as claimed: every arrival order of the completed loads gives the
\* subthreads map of State.
C7_AnyOrderSameMap ==
  \A f \in Perms(Len(completions)) : SubthreadsInOrder(f) = state.subthreads

\* C7 amended: each cached id holds the result of the first completed load for
\* it, so every arrival order gives the same map when the loads for one id
\* return the same result.
C7_OrderIndependentPerId ==
  /\ \A id \in DOMAIN state.subthreads :
       \E i \in 1..Len(completions) :
         /\ completions[i].id = id
         /\ completions[i].result = state.subthreads[id]
         /\ \A j \in 1..(i - 1) : completions[j].id # id
  /\ \A i \in 1..Len(completions) : completions[i].id \in DOMAIN state.subthreads
  /\ SameResultPerId =>
       \A f \in Perms(Len(completions)) : SubthreadsInOrder(f) = state.subthreads

\* loads for two different ids have completed and are both cached
C7_Witness ==
  /\ Len(completions) = 2
  /\ completions[1].id # completions[2].id
  /\ DOMAIN state.subthreads = ReplyIds

\* C8: a publish applies emptyPublishedReducer (replyText '', not editable)
\* and then, with nothing in between, resetEditableReducer (editable again,
\* replyText still ''); replyEditable is false in no other state.
C8_PublishTwoSteps ==
  [][ /\ event'.reducer = "emptyPublishedReducer" =>
            (state'.replyText = "" /\ ~state'.replyEditable /\ pc' = "publishMid")
      /\ pc = "publishMid" =>
            /\ event'.reducer = "resetEditableReducer"
            /\ state'.replyEditable
            /\ state'.replyText = ""
            /\ pc' = "idle"
      /\ "replyEditable" \in defined' =>
            (state'.replyEditable <=> pc' = "idle") ]_vars

\* both publish reducers have been applied to an initialized State
C8_Witness ==
  /\ propsDone
  /\ event.reducer = "resetEditableReducer"
  /\ pc = "idle"
  /\ state.replyEditable

\* C9: a completed draft load for id X read the key "replyDraft:X" and sets
\* replyText to the stored string, or to '' when that is null or empty, and
\* changes no other field.
C9_DraftLoad ==
  [][ event'.reducer = "loadReplyDraftReducer" =>
        /\ draftFetch[1].key = <<"replyDraft:", draftFetch[1].id>>
        /\ event'.arg.key = draftFetch[1].key
        /\ state' = [state EXCEPT !.replyText =
                       IF event'.arg.value \in {Null, ""} THEN ""
                       ELSE event'.arg.value] ]_vars

\* a stored draft has replaced a typed text
C9_Witness ==
  /\ event.reducer = "loadReplyDraftReducer"
  /\ event.arg.value = "hello"
  /\ event.arg.key = <<"replyDraft:", "m2">>
  /\ state.replyText = "hello"

\* C10 as claimed: with a root message in the props, the State right after
\* initialization holds the non-full thread of that one rehydrated message.
C10_PlaceholderAfterInit ==
  (event.reducer = "propsReducer" /\ IsSome(props[1].rootMsg)) =>
    /\ ~state.thread.full
    /\ state.thread.messages = <<Rehydrated(props[1].rootMsg[1])>>

\* C10 amended: the State right after initialization holds the empty full
\* thread; the non-full thread of the one rehydrated root message is installed
\* when the rehydration result arrives, unless the thread of State is then
\* full and non-empty, in which case State is left unchanged.
C10_PlaceholderOnRehydration ==
  [][ /\ event'.reducer = "propsReducer" => state'.thread = emptyThread
      /\ event'.reducer = "setRootMsgReducer" =>
           IF state.thread.full /\ Len(state.thread.messages) > 0
           THEN state' = state
           ELSE state' = [state EXCEPT !.thread =
                  [full |-> FALSE,
                   messages |-> <<Rehydrated(props[1].rootMsg[1])>>,
                   errorReason |-> "none"]] ]_vars

\* the placeholder was installed while the thread load was still pending
C10_Witness ==
  /\ event.reducer = "setRootMsgReducer"
  /\ threadLoad = "pending"
  /\ ~state.thread.full
  /\ state.thread.messages = <<Msg("m1", TRUE)>>

\* C11: applied to a State whose thread is full and non-empty, the hydration
\* reducer returns that State unchanged.
C11_HydrationKeepsFullThread ==
  [][ (event'.reducer = "setRootMsgReducer"
         /\ state.thread.full /\ Len(state.thread.messages) > 0)
        => state' = state ]_vars

\* the rehydration result arrived after a full thread of two messages
C11_Witness ==
  /\ event.reducer = "setRootMsgReducer"
  /\ threadLoad = "open"
  /\ state.thread.full
  /\ Len(state.thread.messages) = 2

C13_Initialization ==
  [][ /\ propsDone => event'.reducer # "propsReducer"
      /\ event'.reducer = "propsReducer" =>
           LET p == props'[1] IN
           /\ p \in PropsSet
           /\ state'.rootMsgId =
                (IF p.rootMsgId # <<>> THEN p.rootMsgId[1] ELSE p.rootMsg[1].key)
           /\ state'.loading
           /\ state'.loadingReplies <=> (p.rootMsg # <<>>)
           /\ state'.thread = [full |-> TRUE, messages |-> <<>>, errorReason |-> "none"]
           /\ DOMAIN state'.subthreads = {}
           /\ state'.replyText = ""
           /\ state'.replyEditable
           /\ state'.startedAsReply <=> (p.replyToMsgId # <<>>)
           /\ state'.keyboardVisible <=> (p.replyToMsgId # <<>>)
           /\ defined' = Fields ]_vars

\* initialized from props without an explicit root id and with a reply target
C13_Witness ==
  /\ event.reducer = "propsReducer"
  /\ props[1].rootMsgId = <<>>
  /\ state.rootMsgId = "m1"
  /\ state.loadingReplies
  /\ state.startedAsReply
  /\ state.keyboardVisible

\* C16: the keyboard reducers set keyboardVisible to true resp. false and
\* change no other field, also while loads are pending.
C16_KeyboardFrame ==
  [][ /\ event'.reducer = "keyboardAppearedReducer" =>
            state' = [state EXCEPT !.keyboardVisible = TRUE]
      /\ event'.reducer = "keyboardDisappearedReducer" =>
            state' = [state EXCEPT !.keyboardVisible = FALSE] ]_vars

\* the keyboard was hidden while the thread load, the rehydration and a draft
\* fetch were all pending
C16_Witness ==
  /\ propsDone
  /\ event.reducer = "keyboardDisappearedReducer"
  /\ threadLoad = "pending"
  /\ rehydrate = "pending"
  /\ IsSome(draftFetch)
  /\ state.loading
  /\ ~state.keyboardVisible
  /\ state.startedAsReply

ReplyTextWriters ==
  {"updateReplyTextReducer", "emptyReplyTextReducer", "emptyPublishedReducer",
   "loadReplyDraftReducer"}

\* C17: on an initialized State each of the four writers leaves its own value
\* in replyText (the edited text, '', '', the stored text or ''), and no other
\* reducer changes replyText.
C17_ReplyTextLastWriter ==
  [][ propsDone =>
        /\ event'.reducer = "updateReplyTextReducer" =>
              state'.replyText = event'.arg
        /\ event'.reducer \in {"emptyReplyTextReducer", "emptyPublishedReducer"} =>
              state'.replyText = ""
        /\ event'.reducer = "loadReplyDraftReducer" =>
              state'.replyText = (IF event'.arg.value \in {Null, ""} THEN ""
                                  ELSE event'.arg.value)
        /\ event'.reducer \notin ReplyTextWriters =>
              state'.replyText = state.replyText ]_vars

\* a text was typed while a draft fetch is pending, whose result will replace it
C17_Witness ==
  /\ propsDone
  /\ event.reducer = "updateReplyTextReducer"
  /\ state.replyText = "hi"
  /\ IsSome(draftFetch)

\* ------------------------------------------------------- profile screen
ProfileSinks == {"clipboard", "toast", "globalEventBus"}
FeedIds == {"@alice", "@bob"}
ClipboardTexts == {"%msg", "@feed"}
Toasts == {"copied", "blocked"}

\* xs.of({type: 'requestLastSessionTimestamp'}): what the stream emits, in
\* order, to a listener before it completes
globalEvent_Twice ==
  <<[type |-> "requestLastSessionTimestamp"], [type |-> "requestLastSessionTimestamp"]>>

globalEvent == <<[type |-> "requestLastSessionTimestamp"]>>

\* profile(sources) runs: the sinks are built, lazily, and returned
Assemble ==
  /\ profilePc = "none"
  /\ profilePc' = "assembled"
  /\ profileStep' = "assemble"
  /\ UNCHANGED <<subscribed, displayFeedId, busLog, clipboardLog, toastLog>>
  /\ UNCHANGED threadVars

\* a driver subscribes to one of the returned sinks; the globalEventBus sink
\* emits its events synchronously on subscription and completes
Subscribe(sink) ==
  /\ profilePc = "assembled"
  /\ sink \notin subscribed
  /\ subscribed' = subscribed \cup {sink}
  /\ busLog' = IF sink = "globalEventBus" THEN busLog \o globalEvent ELSE busLog
  /\ profileStep' = "subscribe"
  /\ UNCHANGED <<profilePc, displayFeedId, clipboardLog, toastLog>>
  /\ UNCHANGED threadVars

\* sources.state.stream emits a state: manageContact is fed its displayFeedId
StateEmits(feedId) ==
  /\ profilePc = "assembled"
  /\ displayFeedId # Some(feedId)
  /\ displayFeedId' = Some(feedId)
  /\ profileStep' = "state"
  /\ UNCHANGED <<profilePc, subscribed, busLog, clipboardLog, toastLog>>
  /\ UNCHANGED threadVars

\* messageEtcSinks.clipboard or manageContactSinks.clipboard emits: xs.merge
\* forwards the value to the clipboard sink
ClipboardEmits(text) ==
  /\ "clipboard" \in subscribed
  /\ Len(clipboardLog) < MaxSinkEmits
  /\ clipboardLog' = Append(clipboardLog, text)
  /\ profileStep' = "clipboard"
  /\ UNCHANGED <<profilePc, subscribed, displayFeedId, busLog, toastLog>>
  /\ UNCHANGED threadVars

\* messageEtcSinks.toast or manageContactSinks.toast emits: xs.merge forwards
\* the value to the toast sink
ToastEmits(toast) ==
  /\ "toast" \in subscribed
  /\ Len(toastLog) < MaxSinkEmits
  /\ toastLog' = Append(toastLog, toast)
  /\ profileStep' = "toast"
  /\ UNCHANGED <<profilePc, subscribed, displayFeedId, busLog, clipboardLog>>
  /\ UNCHANGED threadVars

NextProfile ==
  \/ Assemble
  \/ \E sink \in ProfileSinks : Subscribe(sink)
  \/ \E feedId \in FeedIds : StateEmits(feedId)
  \/ \E text \in ClipboardTexts : ClipboardEmits(text)
  \/ \E toast \in Toasts : ToastEmits(toast)

SpecProfile == Init /\ [][NextProfile]_vars

\* C14: the globalEventBus sink of the profile screen carries nothing until it
\* is subscribed and, from then on, exactly one event, of type
\* 'requestLastSessionTimestamp', whatever else the screen does.
C14_OneGlobalEvent ==
  busLog = IF "globalEventBus" \in subscribed
           THEN <<[type |-> "requestLastSessionTimestamp"]>>
           ELSE <<>>

\* the global event was emitted and the screen went on: its state changed and
\* its clipboard and toast sinks emitted, the clipboard sink last
C14_Witness ==
  /\ busLog = <<[type |-> "requestLastSessionTimestamp"]>>
  /\ displayFeedId # None
  /\ Len(toastLog) > 0
  /\ Len(clipboardLog) = MaxSinkEmits
  /\ profileStep = "clipboard"

\* C15: once the thread has been requested, the state eventually has
\* loading = false and loadingReplies = false, whether the thread source emits
\* a thread or fails.
C15_EventuallyLoaded ==
  (threadLoad = "pending") ~>
      ("loading" \in defined /\ ~state.loading /\ ~state.loadingReplies)

\* C18: no reducer is applied before propsReducer.
C18_PropsReducerFirst == event.reducer # "none" => propsDone

\* C19: no message key occurs twice in thread.messages.
C19_NoDuplicateMessages ==
  \A i, j \in 1..Len(state.thread.messages) :
    i # j => state.thread.messages[i].key # state.thread.messages[j].key

\* C20: after a load-reply-draft action the only pending fetch is the one just
\* requested, an earlier pending one being dropped; a draft reducer is given
\* the result of the pending fetch and nothing else touches the pending fetch.
C20_DraftSwitchLatest ==
  [][ /\ event'.action = "loadReplyDraft" =>
            draftFetch' = <<[id |-> event'.arg.id,
                             key |-> <<"replyDraft:", event'.arg.id>>]>>
      /\ event'.reducer = "loadReplyDraftReducer" =>
            /\ draftFetch # <<>>
            /\ event'.arg.key = draftFetch[1].key
            /\ draftFetch' = <<>>
      /\ draftFetch' # draftFetch =>
            event'.action \in {"loadReplyDraft", "draftLoaded", "draftFailed"} ]_vars

\* a second load-reply-draft action replaced the pending fetch of another id
C20_Witness ==
  /\ event.action = "loadReplyDraft"
  /\ event.arg.replaced # <<>>
  /\ event.arg.replaced[1].id # event.arg.id
  /\ draftFetch = <<[id |-> event.arg.id, key |-> <<"replyDraft:", event.arg.id>>]>>
====
